---- MODULE Spec2Model ----
(***************************************************************************)
(* A model of gokiq's worker (src/worker.go): the dispatcher loop (run),   *)
(* the worker pool (worker), the retry engine (scheduleRetry), the         *)
(* bookkeeping transactions (logJobStart / logJobFinish), the scheduler    *)
(* and the signal-driven shutdown (quitHandler), over a model of the part  *)
(* of the Redis store they use.                                            *)
(***************************************************************************)
EXTENDS Integers, Sequences, FiniteSets, Bags, TLC

\* ------------------------------------------------------------------ bounds
\* number of worker goroutines started by Run (WorkerConfig.WorkerCount)
WorkerCount == 2
\* how many store operations may fail in one behaviour
MaxFaults == 1
\* time.Now() is read as a value of 1..MaxTime
MaxTime == 2
\* the largest value an enqueuer gives the numeric `retry` field
MaxRetryInput == 2
\* the largest weight of a queue in a configuration
MaxWeight == 2

\* ------------------------------------------------------- program constants
defaultMaxRetries == 25

RedisNamespace == ""

\* WorkerConfig.Queues: queue name -> weight
Queues == ("default" :> 2) @@ ("low" :> 1)

QueueNames == DOMAIN Queues

\* the order in which the map iteration of denormalizeQueues visits the queues
QueueOrder == <<"default", "low">>

\* names registered with Register before Run
workerMapping == {"Echo"}

Workers == 0 .. (WorkerCount - 1)

Times == 1 .. MaxTime

\* ------------------------------------------------------------------- keys
\* a key is the sequence of the pieces it is concatenated from
nsKey(key) ==
  IF RedisNamespace # "" THEN <<RedisNamespace, ":">> \o key ELSE key

QueueKey(q) == nsKey(<<"queue:", q>>)

QueueKeys == {QueueKey(q) : q \in QueueNames}

\* string(msg[0].([]byte)[len(w.nsKey("queue:")):])
StripQueuePrefix(key) ==
  SubSeq(key, Len(nsKey(<<"queue:">>)) + 1, Len(key))[1]

pollSets == <<"retry", "schedule">>

\* -------------------------------------------------------------- job codec
\* The `retry` field on the wire: absent, null, a boolean or a number.
\* A number is kept in halves (num = 3 is 1.5) so that truncation is visible.
RetryAbsent == [kind |-> "absent", bool |-> FALSE, num |-> 0]
RetryNull == [kind |-> "null", bool |-> FALSE, num |-> 0]
RetryBool(b) == [kind |-> "bool", bool |-> b, num |-> 0]
RetryNum(h) == [kind |-> "num", bool |-> FALSE, num |-> h]
\* the nil interface value of Job.Retry
RetryNil == [kind |-> "nil", bool |-> FALSE, num |-> 0]

\* int(max) of a float64: truncation towards zero
IntOfFloat(h) == IF h >= 0 THEN h \div 2 ELSE -((-h) \div 2)

\* a timestamp string: "" is the empty sequence
NoTime == <<>>
\* time.Now().UTC().Format(TimestampFormat)
Format(t) == <<t>>

\* bytes that are not JSON
Malformed ==
  [wellFormed |-> FALSE, class |-> "", args |-> <<>>, queue |-> "", jid |-> "",
   retry |-> RetryAbsent, retry_count |-> 0, error_message |-> <<>>,
   error_class |-> "", retried_at |-> NoTime, failed_at |-> NoTime]

\* the zero Job
ZeroJob ==
  [Type |-> "", Args |-> <<>>, Queue |-> "", ID |-> "", Retry |-> RetryNil,
   MaxRetries |-> 0, RetryCount |-> 0, ErrorMessage |-> <<>>, ErrorType |-> "",
   RetriedAt |-> NoTime, FailedAt |-> NoTime]

\* json.Unmarshal(data, job) on a fresh Job
Unmarshal(data) ==
  [ZeroJob EXCEPT !.Type = data.class, !.Args = data.args,
                  !.Queue = data.queue, !.ID = data.jid,
                  !.Retry = IF data.retry.kind \in {"absent", "null"}
                            THEN RetryNil ELSE data.retry,
                  !.RetryCount = data.retry_count,
                  !.ErrorMessage = data.error_message,
                  !.ErrorType = data.error_class,
                  !.RetriedAt = data.retried_at,
                  !.FailedAt = data.failed_at]

\* the normalisation with every boolean taken as "use the default"
MaxRetriesOfBoolDefault(job) ==
  IF job.Retry.kind = "num" THEN IntOfFloat(job.Retry.num)
  ELSE defaultMaxRetries

\* the normalisation of Job.Retry into MaxRetries
MaxRetriesOf(job) ==
  IF job.Retry.kind = "num" THEN IntOfFloat(job.Retry.num)
  ELSE IF job.Retry.kind = "bool" /\ ~job.Retry.bool THEN job.MaxRetries
  ELSE defaultMaxRetries

\* Job.FromJSON: the error flag and the parsed job
FromJSON(data) ==
  IF ~data.wellFormed
  THEN [err |-> TRUE, job |-> ZeroJob]
  ELSE LET job == Unmarshal(data)
       IN [err |-> FALSE, job |-> [job EXCEPT !.MaxRetries = MaxRetriesOf(job)]]

\* Job.JSON: MaxRetries is not serialised, empty strings are omitted
\* (an omitted string reads back as ""), a nil Retry is written as null
JSON(job) ==
  [wellFormed |-> TRUE, class |-> job.Type, args |-> job.Args,
   queue |-> job.Queue, jid |-> job.ID,
   retry |-> IF job.Retry.kind = "nil" THEN RetryNull ELSE job.Retry,
   retry_count |-> job.RetryCount, error_message |-> job.ErrorMessage,
   error_class |-> job.ErrorType, retried_at |-> job.RetriedAt,
   failed_at |-> job.FailedAt]

\* the scheduler's parse of the `queue` field only
ParseQueue(data) ==
  IF ~data.wellFormed THEN [err |-> TRUE, Queue |-> ""]
  ELSE [err |-> FALSE, Queue |-> data.queue]

\* ------------------------------------------------------------------ errors
\* an error value: its Go type (%T) and its message
UnknownWorkerError(type) ==
  [type |-> "gokiq.UnknownWorkerError", msg |-> <<"gokiq: Unknown worker type: ", type>>]

HandlerError == [type |-> "*errors.errorString", msg |-> <<"boom">>]

NoError == [type |-> "nil", msg |-> <<>>]

\* what a handler's Perform can do: return nil, return errors.New("boom"),
\* or panic with "boom", with errors.New("boom"), or with a value that is
\* neither a string nor an error
PerformOutcomes == {"nil", "error", "panic_string", "panic_error", "panic_other"}

\* panicToError: a string becomes fmt.Errorf(str), an error is itself, and
\* for any other value the assertion err.(error) panics inside the deferred
\* function (ok = FALSE): nothing recovers that panic
panicToError(r) ==
  IF r = "panic_string" THEN [ok |-> TRUE, err |-> HandlerError]
  ELSE IF r = "panic_error" THEN [ok |-> TRUE, err |-> HandlerError]
  ELSE [ok |-> FALSE, err |-> NoError]

\* ------------------------------------------------------------ queue list
RECURSIVE Repeat(_, _)
Repeat(x, n) == IF n = 0 THEN <<>> ELSE <<x>> \o Repeat(x, n - 1)

\* denormalizeQueues appending every queue key once, whatever its weight
RECURSIVE denormalizeQueuesOnce(_, _)
denormalizeQueuesOnce(Q, order) ==
  IF order = <<>> THEN <<>>
  ELSE <<QueueKey(Head(order))>> \o denormalizeQueuesOnce(Q, Tail(order))

\* denormalizeQueues over the queues Q (name -> weight), the map iteration
\* visiting them in `order`: every queue key, weight-many times
RECURSIVE denormalizeQueues(_, _)
denormalizeQueues(Q, order) ==
  IF order = <<>> THEN <<>>
  ELSE Repeat(QueueKey(Head(order)), Q[Head(order)])
         \o denormalizeQueues(Q, Tail(order))

denormalizeFrom(i) ==
  denormalizeQueues(Queues, SubSeq(QueueOrder, i, Len(QueueOrder)))

randomQueues == denormalizeFrom(1)

\* rand.Perm(n)[:size]: size distinct indices of 1..n, in any order
DrawsOf(size, n) ==
  {d \in [1 .. size -> 1 .. n] : \A i, j \in DOMAIN d : i # j => d[i] # d[j]}

\* rand.Perm(len(w.randomQueues))[:size]: size distinct indices, in any order
Draws == DrawsOf(Cardinality(QueueNames), Len(randomQueues))

InSeq(x, s) == \E i \in DOMAIN s : s[i] = x

\* queueList's loop without the test for a queue already taken
RECURSIVE queueListFromAll(_, _, _, _)
queueListFromAll(rq, indices, i, res) ==
  IF i > Len(indices) THEN res
  ELSE queueListFromAll(rq, indices, i + 1, Append(res, rq[indices[i]]))

\* queueList's loop over the indices from position i on
RECURSIVE queueListFrom(_, _, _, _)
queueListFrom(rq, indices, i, res) ==
  IF i > Len(indices) THEN res
  ELSE LET queue == rq[indices[i]]
       IN queueListFrom(rq, indices, i + 1,
                        IF InSeq(queue, res) THEN res ELSE Append(res, queue))

\* queueList over the denormalized queues rq: the queues at the drawn
\* indices, first occurrences only
queueListOf(rq, indices) == queueListFrom(rq, indices, 1, <<>>)

queueList(indices) == queueListOf(randomQueues, indices)

\* ------------------------------------------------------------ retry engine
\* scheduleRetry without the test of RetryCount against MaxRetries
scheduleRetryAlways(job, err, now) ==
  LET j1 == IF job.FailedAt = NoTime
            THEN [job EXCEPT !.FailedAt = Format(now)]
            ELSE [job EXCEPT !.RetryCount = @ + 1]
      j2 == IF j1.RetryCount > 0 THEN [j1 EXCEPT !.RetriedAt = Format(now)] ELSE j1
  IN [write |-> TRUE,
      job |-> [j2 EXCEPT !.ErrorType = err.type, !.ErrorMessage = err.msg]]

\* scheduleRetry stamping FailedAt at every failure
scheduleRetryOverwrite(job, err, now) ==
  LET j1 == IF job.FailedAt = NoTime
            THEN [job EXCEPT !.FailedAt = Format(now)]
            ELSE [job EXCEPT !.RetryCount = @ + 1, !.FailedAt = Format(now)]
      j2 == IF j1.RetryCount > 0 THEN [j1 EXCEPT !.RetriedAt = Format(now)] ELSE j1
      write == j2.RetryCount < j2.MaxRetries
  IN [write |-> write,
      job |-> IF write
              THEN [j2 EXCEPT !.ErrorType = err.type, !.ErrorMessage = err.msg]
              ELSE j2]

\* scheduleRetry's changes to the job, and whether it writes it to `retry`
scheduleRetry(job, err, now) ==
  LET j1 == IF job.FailedAt = NoTime
            THEN [job EXCEPT !.FailedAt = Format(now)]
            ELSE [job EXCEPT !.RetryCount = @ + 1]
      j2 == IF j1.RetryCount > 0 THEN [j1 EXCEPT !.RetriedAt = Format(now)] ELSE j1
      write == j2.RetryCount < j2.MaxRetries
  IN [write |-> write,
      job |-> IF write
              THEN [j2 EXCEPT !.ErrorType = err.type, !.ErrorMessage = err.msg]
              ELSE j2]

\* ------------------------------------------------------------------ state
workerID(i) == <<"host", "pid", i>>

WorkerIDs == {workerID(i) : i \in Workers}

\* "self" is the scheduler of this process, "peer" the scheduler of another
\* worker process on the same store
Promoters == {"self", "peer"}

VARIABLES
  \* the store
  list,          \* queue:<name> lists
  queues,        \* the `queues` set
  zset,          \* the `retry` and `schedule` sorted sets (members)
  workers,       \* the `workers` set
  workerKey,     \* worker:<wid> : <<>> or <<payload>>
  startedKey,    \* worker:<wid>:started : <<>> or <<timestamp>>
  statProcessed, \* stat:processed
  statFailed,    \* stat:failed
  \* the process
  proc,          \* "running", "exited" (os.Exit(0)) or "crashed"
  rw,            \* the RWMutex: readers and the writer's state
  chanClosed,    \* workQueue has been closed
  done,          \* the WaitGroup counter
  dpc, dmsg,     \* the dispatcher (run): position and the job it sends
  pc, job, err,  \* the worker goroutines
  ppc, pset, pmsgs, \* the schedulers: position, set index, entries to push
  qpc, qi,       \* quitHandler: position and index of its Wait loop
  reported,      \* what ReportError was called with
  cfgQueues,       \* w.Queues: queue name -> weight
  cfgRandomQueues, \* w.randomQueues, <<>> before denormalizeQueues
  lastIndices,     \* the indices drawn by the last queueList call
  lastList,        \* what the last queueList call returned
  \* history
  faults,        \* store operations that have failed
  tally,         \* per jid: times received by a worker, MaxRetries, Perform
                 \* calls, a success seen, INCRs of stat:failed
  finished,      \* worker iterations completed, and those that failed
  observed,      \* <<promoter, entry>>: entry was returned to promoter
  pushed         \* bag of the entries the schedulers have pushed

storeVars == <<list, queues, zset, workers, workerKey, startedKey, statProcessed, statFailed>>
procVars == <<proc, rw, chanClosed, done>>
dispVars == <<dpc, dmsg>>
workVars == <<pc, job, err>>
schedVars == <<ppc, pset, pmsgs>>
quitVars == <<qpc, qi>>
histVars == <<faults, tally, finished, observed, pushed>>
drawVars == <<cfgQueues, cfgRandomQueues, lastIndices, lastList>>

vars == <<storeVars, procVars, dispVars, workVars, schedVars, quitVars, reported, histVars,
          drawVars>>

Jids == {"a", "b", "c", "d"}

\* a freshly enqueued envelope
Fresh(class, jid, queue, retry) ==
  [wellFormed |-> TRUE, class |-> class, args |-> <<1, 2>>, queue |-> queue,
   jid |-> jid, retry |-> retry, retry_count |-> 0, error_message |-> <<>>,
   error_class |-> "", retried_at |-> NoTime, failed_at |-> NoTime]

\* the `retry` values the enqueuers use in this model
RetryInputs ==
  {RetryBool(FALSE)} \cup {RetryNum(2 * n) : n \in 0 .. MaxRetryInput}

\* What the store holds when the process starts: one job with a registered
\* handler in queue:default; or a job of an unregistered class in `schedule`,
\* alone, with bytes that are not JSON or with a second job; or a job
\* without retries in queue:default and another one, for the same queue, in
\* `schedule`
InitialStores ==
  {[default |-> <<Fresh("Echo", "a", "", r)>>, schedule |-> {}] : r \in RetryInputs}
  \cup {[default |-> <<>>,
         schedule |-> {Fresh("Missing", "b", "low", RetryNum(2))} \cup s] :
          s \in {{}, {Malformed}, {Fresh("Echo", "d", "default", RetryNum(0))}}}
  \cup {[default |-> <<Fresh("Echo", "c", "default", RetryBool(FALSE))>>,
         schedule |-> {Fresh("Echo", "d", "default", RetryNum(0))}]}

\* the state after NewWorkerConfig and Register, over the store st
InitFrom(st) ==
  /\ list = [k \in QueueKeys |->
               IF k = QueueKey("default") THEN st.default
               ELSE IF "low" \in DOMAIN st THEN st.low
               ELSE <<>>]
  /\ zset = [n \in {"retry", "schedule"} |->
               IF n = "schedule" THEN st.schedule ELSE {}]
  /\ queues = {"default"}
  /\ workers = {}
  /\ workerKey = [w \in WorkerIDs |-> <<>>]
  /\ startedKey = [w \in WorkerIDs |-> <<>>]
  /\ statProcessed = 0
  /\ statFailed = 0
  /\ proc = "running"
  /\ rw = [readers |-> 0, writer |-> "free"]
  /\ chanClosed = FALSE
  /\ done = 0
  /\ dpc = "idle"
  /\ dmsg = ZeroJob
  /\ pc = [w \in Workers |-> "start"]
  /\ job = [w \in Workers |-> ZeroJob]
  /\ err = [w \in Workers |-> NoError]
  /\ ppc = [p \in Promoters |-> "idle"]
  /\ pset = [p \in Promoters |-> 1]
  /\ pmsgs = [p \in Promoters |-> <<>>]
  /\ qpc = "wait"
  /\ qi = 0
  /\ reported = {}
  /\ faults = 0
  /\ tally = [j \in Jids |-> [received |-> 0, max |-> 0, performed |-> 0,
                               succeeded |-> FALSE, failIncr |-> 0]]
  /\ finished = [all |-> 0, failed |-> 0]
  /\ observed = {}
  /\ pushed = EmptyBag

\* the configuration of this model, after denormalizeQueues
InitConfig ==
  /\ cfgQueues = Queues
  /\ cfgRandomQueues = randomQueues
  /\ lastIndices = <<>>
  /\ lastList = <<>>

Init == InitConfig /\ \E st \in InitialStores : InitFrom(st)

\* ------------------------------------------------------------ the store
\* a store operation succeeds, or fails without effect and returns an error
StoreResults == IF faults < MaxFaults THEN {"ok", "err"} ELSE {"ok"}

Fault(res) == faults' = IF res = "ok" THEN faults ELSE faults + 1

\* handleError: ReportError(err, nil)
handleError(kind) == reported' = reported \cup {[err |-> kind, jid |-> "nil"]}

Running == proc = "running"

\* an RLock that does not wait for the writer
RLockAnyway == rw' = [rw EXCEPT !.readers = @ + 1]

\* RWMutex: RLock waits while a writer holds or awaits the lock
RLock == /\ rw.writer = "free"
         /\ rw' = [rw EXCEPT !.readers = @ + 1]

RUnlock == rw' = [rw EXCEPT !.readers = @ - 1]

\* BLPOP over the list of keys: the first key whose list is not empty
RECURSIVE FirstNonEmpty(_, _)
FirstNonEmpty(keys, i) ==
  IF i > Len(keys) THEN 0
  ELSE IF list[keys[i]] # <<>> THEN i ELSE FirstNonEmpty(keys, i + 1)

\* -------------------------------------------------------- dispatcher: run
\* run: w.RLock()
RunRLock ==
  /\ Running /\ dpc = "idle"
  /\ RLock
  /\ dpc' = "locked"
  /\ UNCHANGED <<storeVars, proc, chanClosed, done, dmsg, workVars, schedVars,
                 quitVars, reported, histVars>>
  /\ UNCHANGED drawVars

\* run: BLPOP over a fresh queue list; on nothing, on a store error or on a
\* parse error it returns (RUnlock); otherwise it goes on to send the job
RunBLPOP ==
  /\ Running /\ dpc = "locked"
  /\ \E indices \in Draws, res \in StoreResults :
       LET keys == queueList(indices)
           i == FirstNonEmpty(keys, 1)
       IN /\ Fault(res)
          /\ IF res = "err"
             THEN /\ handleError("store")
                  /\ RUnlock /\ dpc' = "idle"
                  /\ UNCHANGED <<list, dmsg>>
             ELSE IF i = 0
             THEN /\ RUnlock /\ dpc' = "idle"
                  /\ UNCHANGED <<list, dmsg, reported>>
             ELSE LET key == keys[i]
                      parsed == FromJSON(Head(list[key]))
                  IN /\ list' = [list EXCEPT ![key] = Tail(@)]
                     /\ IF parsed.err
                        THEN /\ handleError("json")
                             /\ RUnlock /\ dpc' = "idle"
                             /\ UNCHANGED dmsg
                        ELSE /\ dmsg' = [parsed.job EXCEPT !.Queue = StripQueuePrefix(key)]
                             /\ dpc' = "send"
                             /\ UNCHANGED <<rw, reported>>
  /\ UNCHANGED <<queues, zset, workers, workerKey, startedKey, statProcessed,
                 statFailed, proc, chanClosed, done, workVars, schedVars, quitVars,
                 tally, finished, observed, pushed>>
  /\ UNCHANGED drawVars

\* ------------------------------------------------------------ worker pool
\* worker: w.done.Add(1)
WorkerStart(w) ==
  /\ Running /\ pc[w] = "start"
  /\ done' = done + 1
  /\ pc' = [pc EXCEPT ![w] = "recv"]
  /\ UNCHANGED <<storeVars, proc, rw, chanClosed, dispVars, job, err, schedVars,
                 quitVars, reported, histVars>>
  /\ UNCHANGED drawVars

\* a hand-off that does not wait for the worker to be at its receive
WorkerReceiveBuffered(w) ==
  /\ Running /\ pc[w] \in {"recv", "got"} /\ dpc = "send" /\ ~chanClosed
  /\ job' = [job EXCEPT ![w] = dmsg]
  /\ pc' = [pc EXCEPT ![w] = "got"]
  /\ dmsg' = ZeroJob /\ dpc' = "idle"
  /\ RUnlock
  /\ tally' = [tally EXCEPT ![dmsg.ID].received = @ + 1,
                            ![dmsg.ID].max = dmsg.MaxRetries]
  /\ UNCHANGED <<storeVars, proc, chanClosed, done, err, schedVars, quitVars,
                 reported, faults, finished, observed, pushed>>
  /\ UNCHANGED drawVars

\* the unbuffered workQueue: run's send meets worker w's receive, and run
\* returns (RUnlock)
WorkerReceive(w) ==
  /\ Running /\ pc[w] = "recv" /\ dpc = "send" /\ ~chanClosed
  /\ job' = [job EXCEPT ![w] = dmsg]
  /\ pc' = [pc EXCEPT ![w] = "got"]
  /\ dmsg' = ZeroJob /\ dpc' = "idle"
  /\ RUnlock
  /\ tally' = [tally EXCEPT ![dmsg.ID].received = @ + 1,
                            ![dmsg.ID].max = dmsg.MaxRetries]
  /\ UNCHANGED <<storeVars, proc, chanClosed, done, err, schedVars, quitVars,
                 reported, faults, finished, observed, pushed>>
  /\ UNCHANGED drawVars

\* worker: the range over the closed channel ends; w.done.Done()
WorkerExit(w) ==
  /\ Running /\ pc[w] = "recv" /\ chanClosed
  /\ done' = done - 1
  /\ pc' = [pc EXCEPT ![w] = "exited"]
  /\ UNCHANGED <<storeVars, proc, rw, chanClosed, dispVars, job, err, schedVars,
                 quitVars, reported, histVars>>
  /\ UNCHANGED drawVars

\* the call scheduleRetry(j, e): ReportError(e, j), the accounting, and the
\* ZADD into `retry` when retries remain (its error is ignored)
ScheduleRetryCall(w, e) ==
  \E now \in Times, res \in StoreResults :
    LET r == scheduleRetry(job[w], e, now)
    IN /\ reported' = reported \cup {[err |-> e.type, jid |-> job[w].ID]}
       /\ job' = [job EXCEPT ![w] = r.job]
       /\ IF r.write
          THEN /\ Fault(res)
               /\ zset' = IF res = "ok"
                          THEN [zset EXCEPT !["retry"] = @ \cup {JSON(r.job)}]
                          ELSE zset
          ELSE /\ res = "ok"
               /\ UNCHANGED <<zset, faults>>

\* the unregistered class handled with return in place of continue
WorkerUnknownReturn(w) ==
  /\ Running /\ pc[w] = "got" /\ job[w].Type \notin workerMapping
  /\ ScheduleRetryCall(w, UnknownWorkerError(job[w].Type))
  /\ pc' = [pc EXCEPT ![w] = "exited"]
  /\ UNCHANGED <<list, queues, workers, workerKey, startedKey, statProcessed,
                 statFailed, procVars, dispVars, err, schedVars, quitVars,
                 tally, finished, observed, pushed>>
  /\ UNCHANGED drawVars

\* worker: the class is not registered: scheduleRetry and continue
WorkerUnknown(w) ==
  /\ Running /\ pc[w] = "got" /\ job[w].Type \notin workerMapping
  /\ ScheduleRetryCall(w, UnknownWorkerError(job[w].Type))
  /\ pc' = [pc EXCEPT ![w] = "continue"]
  /\ UNCHANGED <<list, queues, workers, workerKey, startedKey, statProcessed,
                 statFailed, procVars, dispVars, err, schedVars, quitVars,
                 tally, finished, observed, pushed>>
  /\ UNCHANGED drawVars

\* worker: the continue after scheduleRetry: back to the receive
WorkerContinue(w) ==
  /\ Running /\ pc[w] = "continue"
  /\ pc' = [pc EXCEPT ![w] = "recv"]
  /\ job' = [job EXCEPT ![w] = ZeroJob]
  /\ finished' = [all |-> finished.all + 1, failed |-> finished.failed + 1]
  /\ UNCHANGED <<storeVars, procVars, dispVars, err, schedVars, quitVars,
                 reported, faults, tally, observed, pushed>>
  /\ UNCHANGED drawVars

\* logJobStart with the handler skipped when the transaction fails
logJobStartSkip(w) ==
  /\ Running /\ pc[w] = "got" /\ job[w].Type \in workerMapping
  /\ \E res \in StoreResults :
       /\ Fault(res)
       /\ IF res = "ok"
          THEN /\ workers' = workers \cup {workerID(w)}
               /\ startedKey' = [startedKey EXCEPT ![workerID(w)] = <<"now">>]
               /\ workerKey' = [workerKey EXCEPT ![workerID(w)] =
                                  <<[queue |-> job[w].Queue, payload |-> JSON(job[w]), run_at |-> "now"]>>]
               /\ UNCHANGED reported
          ELSE /\ handleError("store")
               /\ UNCHANGED <<workers, startedKey, workerKey>>
  /\ pc' = [pc EXCEPT ![w] = IF faults' > faults THEN "finish" ELSE "perform"]
  /\ UNCHANGED <<list, queues, zset, statProcessed, statFailed, procVars,
                 dispVars, job, err, schedVars, quitVars, tally,
                 finished, observed, pushed>>
  /\ UNCHANGED drawVars

\* logJobStart: one transaction of SADD workers, SETEX worker:<id>:started,
\* SETEX worker:<id>; an error is reported. The two timestamps written are
\* kept as the token "now", and the expiry of the two keys after keyExpiry
\* seconds is left out: the model has no clock.
logJobStart(w) ==
  /\ Running /\ pc[w] = "got" /\ job[w].Type \in workerMapping
  /\ \E res \in StoreResults :
       /\ Fault(res)
       /\ IF res = "ok"
          THEN /\ workers' = workers \cup {workerID(w)}
               /\ startedKey' = [startedKey EXCEPT ![workerID(w)] = <<"now">>]
               /\ workerKey' = [workerKey EXCEPT ![workerID(w)] =
                                  <<[queue |-> job[w].Queue, payload |-> JSON(job[w]), run_at |-> "now"]>>]
               /\ UNCHANGED reported
          ELSE /\ handleError("store")
               /\ UNCHANGED <<workers, startedKey, workerKey>>
  /\ pc' = [pc EXCEPT ![w] = "perform"]
  /\ UNCHANGED <<list, queues, zset, statProcessed, statFailed, procVars,
                 dispVars, job, err, schedVars, quitVars, tally,
                 finished, observed, pushed>>
  /\ UNCHANGED drawVars

\* worker: Perform under recover. A panic with a value that is neither a
\* string nor an error panics again in panicToError and ends the process.
Perform(w) ==
  /\ Running /\ pc[w] = "perform"
  /\ \E out \in PerformOutcomes :
       LET trapped == panicToError(out)
           e == IF out = "nil" THEN NoError
                ELSE IF out = "error" THEN HandlerError
                ELSE trapped.err
           died == out \notin {"nil", "error"} /\ ~trapped.ok
       IN /\ tally' = [tally EXCEPT ![job[w].ID].performed = @ + 1,
                                    ![job[w].ID].succeeded = @ \/ out = "nil"]
          /\ err' = [err EXCEPT ![w] = e]
          /\ proc' = IF died THEN "crashed" ELSE proc
          /\ pc' = [pc EXCEPT ![w] = IF died THEN "perform"
                                     ELSE IF out = "nil" THEN "finish" ELSE "retry"]
  /\ UNCHANGED <<storeVars, rw, chanClosed, done, dispVars, job, schedVars,
                 quitVars, reported, faults, finished, observed, pushed>>
  /\ UNCHANGED drawVars

\* worker: err != nil: scheduleRetry(job, err)
WorkerScheduleRetry(w) ==
  /\ Running /\ pc[w] = "retry"
  /\ ScheduleRetryCall(w, err[w])
  /\ pc' = [pc EXCEPT ![w] = "finish"]
  /\ UNCHANGED <<list, queues, workers, workerKey, startedKey, statProcessed,
                 statFailed, procVars, dispVars, err, schedVars, quitVars,
                 tally, finished, observed, pushed>>
  /\ UNCHANGED drawVars

\* logJobFinish: one transaction of SREM workers, DEL of the two keys, INCR
\* stat:processed and, when the job failed, INCR stat:failed
logJobFinish(w) ==
  /\ Running /\ pc[w] = "finish"
  /\ LET success == err[w] = NoError
     IN /\ \E res \in StoreResults :
             /\ Fault(res)
             /\ IF res = "ok"
                THEN /\ workers' = workers \ {workerID(w)}
                     /\ startedKey' = [startedKey EXCEPT ![workerID(w)] = <<>>]
                     /\ workerKey' = [workerKey EXCEPT ![workerID(w)] = <<>>]
                     /\ statProcessed' = statProcessed + 1
                     /\ statFailed' = IF success THEN statFailed ELSE statFailed + 1
                     /\ tally' = [tally EXCEPT ![job[w].ID].failIncr =
                                                 IF success THEN @ ELSE @ + 1]
                     /\ UNCHANGED reported
                ELSE /\ handleError("store")
                     /\ UNCHANGED <<workers, startedKey, workerKey, statProcessed,
                                    statFailed, tally>>
        /\ finished' = [all |-> finished.all + 1,
                        failed |-> finished.failed + IF success THEN 0 ELSE 1]
  /\ pc' = [pc EXCEPT ![w] = "recv"]
  /\ job' = [job EXCEPT ![w] = ZeroJob]
  /\ err' = [err EXCEPT ![w] = NoError]
  /\ UNCHANGED <<list, queues, zset, procVars, dispVars, schedVars, quitVars,
                 observed, pushed>>
  /\ UNCHANGED drawVars

\* -------------------------------------------------------------- scheduler
\* every ordering of a finite set as a sequence
SeqsOf(S) ==
  {s \in [1 .. Cardinality(S) -> S] : \A i, j \in DOMAIN s : i # j => s[i] # s[j]}

\* the read of the due members without their removal
FetchDueKeep(members, due) == [msgs |-> due, rest |-> members]

\* MULTI; ZRANGEBYSCORE set -inf now; ZREMRANGEBYSCORE set -inf now; EXEC:
\* the due members are returned and removed in one step
FetchDue(members, due) == [msgs |-> due, rest |-> members \ due]

\* the end of the loop over one set's entries: the next set, or the end of
\* the iteration (conn.Close, RUnlock)
NextSet(p) ==
  IF pset[p] < Len(pollSets)
  THEN /\ pset' = [pset EXCEPT ![p] = @ + 1]
       /\ ppc' = [ppc EXCEPT ![p] = "poll"]
       /\ UNCHANGED rw
  ELSE /\ pset' = [pset EXCEPT ![p] = 1]
       /\ ppc' = [ppc EXCEPT ![p] = "idle"]
       /\ IF p = "self" THEN RUnlock ELSE UNCHANGED rw

\* the errors of the peer go to the peer's error sink
SchedError(p, kind) == IF p = "self" THEN handleError(kind) ELSE UNCHANGED reported

\* scheduler: a timer tick; w.RLock()
SchedTick(p) ==
  /\ p = "self" => Running
  /\ ppc[p] = "idle"
  /\ IF p = "self" THEN RLock ELSE UNCHANGED rw
  /\ ppc' = [ppc EXCEPT ![p] = "poll"]
  /\ UNCHANGED <<storeVars, proc, chanClosed, done, dispVars, workVars, pset,
                 pmsgs, quitVars, reported, histVars>>
  /\ UNCHANGED drawVars

\* scheduler: the transaction that reads and removes the due entries of the
\* current set; on an error it reports and continues with the next set
SchedFetch(p) ==
  /\ p = "self" => Running
  /\ ppc[p] = "poll"
  /\ LET set == pollSets[pset[p]]
     IN \E res \in StoreResults, due \in SUBSET zset[set] :
          LET f == FetchDue(zset[set], due)
          IN /\ Fault(res)
             /\ IF res = "err"
                THEN /\ SchedError(p, "store")
                     /\ NextSet(p)
                     /\ UNCHANGED <<zset, pmsgs, observed>>
                ELSE /\ zset' = [zset EXCEPT ![set] = f.rest]
                     /\ observed' = observed \cup {<<p, m>> : m \in f.msgs}
                     /\ UNCHANGED reported
                     /\ IF f.msgs = {}
                        THEN NextSet(p) /\ UNCHANGED pmsgs
                        ELSE /\ \E order \in SeqsOf(f.msgs) :
                                  pmsgs' = [pmsgs EXCEPT ![p] = order]
                             /\ ppc' = [ppc EXCEPT ![p] = "push"]
                             /\ UNCHANGED <<pset, rw>>
  /\ UNCHANGED <<list, queues, workers, workerKey, startedKey, statProcessed,
                 statFailed, proc, chanClosed, done, dispVars, workVars, quitVars,
                 tally, finished, pushed>>
  /\ UNCHANGED drawVars

\* the scheduler pushing with LPUSH: the entry goes to the head of the queue
SchedPushFront(p) ==
  /\ p = "self" => Running
  /\ ppc[p] = "push"
  /\ LET msgBytes == Head(pmsgs[p])
         parsedMsg == ParseQueue(msgBytes)
     IN \E res \in StoreResults :
          /\ Fault(res)
          /\ IF parsedMsg.err
             THEN /\ res = "ok"
                  /\ SchedError(p, "json")
                  /\ UNCHANGED <<list, queues, pushed>>
             ELSE IF res = "err"
             THEN /\ SchedError(p, "store")
                  /\ UNCHANGED <<list, queues, pushed>>
             ELSE /\ queues' = queues \cup {parsedMsg.Queue}
                  /\ list' = [list EXCEPT ![QueueKey(parsedMsg.Queue)] = <<msgBytes>> \o @]
                  /\ pushed' = pushed (+) SetToBag({msgBytes})
                  /\ UNCHANGED reported
  /\ pmsgs' = [pmsgs EXCEPT ![p] = Tail(@)]
  /\ IF Len(pmsgs[p]) = 1 THEN NextSet(p) ELSE UNCHANGED <<ppc, pset, rw>>
  /\ UNCHANGED <<zset, workers, workerKey, startedKey, statProcessed, statFailed,
                 proc, chanClosed, done, dispVars, workVars, quitVars,
                 tally, finished, observed>>
  /\ UNCHANGED drawVars

\* scheduler: one fetched entry: parse its queue, then the transaction of
\* SADD queues and RPUSH queue:<queue> with the entry's bytes; a parse error
\* or a store error is reported and the entry is skipped
SchedPush(p) ==
  /\ p = "self" => Running
  /\ ppc[p] = "push"
  /\ LET msgBytes == Head(pmsgs[p])
         parsedMsg == ParseQueue(msgBytes)
     IN \E res \in StoreResults :
          /\ Fault(res)
          /\ IF parsedMsg.err
             THEN /\ res = "ok"
                  /\ SchedError(p, "json")
                  /\ UNCHANGED <<list, queues, pushed>>
             ELSE IF res = "err"
             THEN /\ SchedError(p, "store")
                  /\ UNCHANGED <<list, queues, pushed>>
             ELSE /\ queues' = queues \cup {parsedMsg.Queue}
                  /\ list' = [list EXCEPT ![QueueKey(parsedMsg.Queue)] = Append(@, msgBytes)]
                  /\ pushed' = pushed (+) SetToBag({msgBytes})
                  /\ UNCHANGED reported
  /\ pmsgs' = [pmsgs EXCEPT ![p] = Tail(@)]
  /\ IF Len(pmsgs[p]) = 1 THEN NextSet(p) ELSE UNCHANGED <<ppc, pset, rw>>
  /\ UNCHANGED <<zset, workers, workerKey, startedKey, statProcessed, statFailed,
                 proc, chanClosed, done, dispVars, workVars, quitVars,
                 tally, finished, observed>>
  /\ UNCHANGED drawVars

\* ----------------------------------------------------------- quitHandler
\* a SIGINT, SIGTERM or SIGQUIT arrives on the channel c
Signal ==
  /\ Running /\ qpc = "wait"
  /\ qpc' = "signalled"
  /\ UNCHANGED <<storeVars, procVars, dispVars, workVars, schedVars, qi,
                 reported, histVars>>
  /\ UNCHANGED drawVars

\* quitHandler: w.Lock() is called: from now on RLock waits
QuitLock ==
  /\ Running /\ qpc = "signalled"
  /\ rw' = [rw EXCEPT !.writer = "waiting"]
  /\ qpc' = "locking"
  /\ UNCHANGED <<storeVars, proc, chanClosed, done, dispVars, workVars,
                 schedVars, qi, reported, histVars>>
  /\ UNCHANGED drawVars

\* a w.Lock() that returns while readers still hold the lock
QuitLockedEarly ==
  /\ Running /\ qpc = "locking"
  /\ rw' = [rw EXCEPT !.writer = "held"]
  /\ qpc' = "locked"
  /\ UNCHANGED <<storeVars, proc, chanClosed, done, dispVars, workVars,
                 schedVars, qi, reported, histVars>>
  /\ UNCHANGED drawVars

\* quitHandler: w.Lock() returns once no reader holds the lock
QuitLocked ==
  /\ Running /\ qpc = "locking"
  /\ rw.readers = 0
  /\ rw' = [rw EXCEPT !.writer = "held"]
  /\ qpc' = "locked"
  /\ UNCHANGED <<storeVars, proc, chanClosed, done, dispVars, workVars,
                 schedVars, qi, reported, histVars>>
  /\ UNCHANGED drawVars

\* quitHandler: close(w.workQueue)
QuitClose ==
  /\ Running /\ qpc = "locked"
  /\ chanClosed' = TRUE
  /\ qpc' = "waiting"
  /\ qi' = 0
  /\ UNCHANGED <<storeVars, proc, rw, done, dispVars, workVars, schedVars,
                 reported, histVars>>
  /\ UNCHANGED drawVars

\* quitHandler: one w.done.Wait() of the loop returns when the counter is 0
QuitWait ==
  /\ Running /\ qpc = "waiting" /\ qi < WorkerCount
  /\ done = 0
  /\ qi' = qi + 1
  /\ UNCHANGED <<storeVars, procVars, dispVars, workVars, schedVars, qpc,
                 reported, histVars>>
  /\ UNCHANGED drawVars

\* quitHandler: os.Exit(0)
QuitExit ==
  /\ Running /\ qpc = "waiting" /\ qi = WorkerCount
  /\ proc' = "exited"
  /\ qpc' = "exited"
  /\ UNCHANGED <<storeVars, rw, chanClosed, done, dispVars, workVars, schedVars,
                 qi, reported, histVars>>
  /\ UNCHANGED drawVars

\* ---------------------------------------------------------- specification
\* the dispatcher and the worker goroutines while workQueue is open
NextJob ==
  \/ RunRLock
  \/ RunBLPOP
  \/ \E w \in Workers : WorkerStart(w)
  \/ \E w \in Workers : WorkerReceive(w)
  \/ \E w \in Workers : WorkerUnknown(w)
  \/ \E w \in Workers : WorkerContinue(w)
  \/ \E w \in Workers : logJobStart(w)
  \/ \E w \in Workers : Perform(w)
  \/ \E w \in Workers : WorkerScheduleRetry(w)
  \/ \E w \in Workers : logJobFinish(w)

\* the scheduler goroutine of promoter p
NextSched(p) ==
  \/ SchedTick(p)
  \/ SchedFetch(p)
  \/ SchedPush(p)

\* the quitHandler goroutine
NextQuit ==
  \/ Signal
  \/ QuitLock
  \/ QuitLocked
  \/ QuitClose
  \/ QuitWait
  \/ QuitExit

\* this process
Next ==
  \/ NextJob
  \/ \E w \in Workers : WorkerExit(w)
  \/ NextSched("self")
  \/ NextQuit

Spec == Init /\ [][Next]_vars

\* this process, no signal arriving, and the scheduler of a second worker
\* process on the same store
NextShared ==
  \/ NextJob
  \/ NextSched("self")
  \/ NextSched("peer")

SpecShared == Init /\ [][NextShared]_vars

\* the `retry` values of the wire format: absent, null, a boolean, or a
\* number between -MaxRetryInput and MaxRetryInput in steps of one half
WireRetries ==
  {RetryAbsent, RetryNull, RetryBool(TRUE), RetryBool(FALSE)}
    \cup {RetryNum(h) : h \in (-2 * MaxRetryInput) .. (2 * MaxRetryInput)}

\* one freshly enqueued job in queue:default, of any class and `retry` value
InitialEnvelopes ==
  {[default |-> <<Fresh(class, "a", "default", r)>>, schedule |-> {}] :
     class \in {"Echo", "Missing"}, r \in WireRetries}

InitCodec == InitConfig /\ \E st \in InitialEnvelopes : InitFrom(st)

\* the dispatcher and the workers on one enqueued job
SpecCodec == InitCodec /\ [][NextJob]_vars

\* ---------------------------------------------------------- scheduling
\* the steps of worker goroutine w
WorkerStep(w) ==
  \/ WorkerStart(w)
  \/ WorkerReceive(w)
  \/ WorkerExit(w)
  \/ WorkerUnknown(w)
  \/ WorkerContinue(w)
  \/ logJobStart(w)
  \/ Perform(w)
  \/ WorkerScheduleRetry(w)
  \/ logJobFinish(w)

\* the steps of quitHandler once a signal has arrived
QuitStep == QuitLock \/ QuitLocked \/ QuitClose \/ QuitWait \/ QuitExit

\* The Go scheduler runs every goroutine that can take a step, every store
\* operation returns and every handler invocation ends; when a signal
\* arrives is up to the environment.
Fairness ==
  /\ WF_vars(RunRLock \/ RunBLPOP)
  /\ \A w \in Workers : WF_vars(WorkerStep(w))
  /\ WF_vars(NextSched("self"))
  /\ WF_vars(QuitStep)

SpecLive == Init /\ [][Next]_vars /\ Fairness

\* a BLPOP that takes an entry from the queue with key k
PopFrom(k) == RunBLPOP /\ Len(list'[k]) < Len(list[k])

\* the random draw is fair: a queue that can be drawn and popped again and
\* again is popped
FairDraw == \A k \in QueueKeys : SF_vars(PopFrom(k))

\* two jobs in queue:default, of weight 2, and one in queue:low, of weight 1
InitFairDraw ==
  /\ InitConfig
  /\ InitFrom([default |-> <<Fresh("Echo", "c", "default", RetryBool(FALSE)),
                             Fresh("Missing", "b", "default", RetryBool(FALSE))>>,
               low |-> <<Fresh("Echo", "a", "low", RetryBool(FALSE))>>,
               schedule |-> {}])

\* the dispatcher and the workers, no signal arriving, under a fair draw
SpecFairDraw ==
  /\ InitFairDraw /\ [][NextJob]_vars
  /\ WF_vars(RunRLock \/ RunBLPOP)
  /\ \A w \in Workers : WF_vars(WorkerStep(w))
  /\ FairDraw

\* ------------------------------------------------------ a full queue
\* more jobs in queue:default than the pool and the dispatcher can hold at
\* once, none of them retried; the last one is of an unregistered class
PressureJobs ==
  <<Fresh("Echo", "c", "default", RetryBool(FALSE)),
    Fresh("Echo", "d", "default", RetryBool(FALSE)),
    Fresh("Echo", "a", "default", RetryBool(FALSE)),
    Fresh("Missing", "b", "default", RetryBool(FALSE))>>

InitPressure ==
  /\ InitConfig
  /\ InitFrom([default |-> PressureJobs, schedule |-> {}])

\* the dispatcher and the workers on the full queue
SpecPressure == InitPressure /\ [][NextJob]_vars

\* ------------------------------------------------- the queue list, alone
\* the queue names a configuration may use
QueueUniverse == {"default", "low", "high"}

\* every w.Queues with at least one queue and positive weights
Configs ==
  UNION {[S -> 1 .. MaxWeight] : S \in (SUBSET QueueUniverse) \ {{}}}

\* a WorkerConfig with any of these queues, before denormalizeQueues
InitQueueList ==
  /\ cfgQueues \in Configs
  /\ cfgRandomQueues = <<>>
  /\ lastIndices = <<>>
  /\ lastList = <<>>
  /\ InitFrom([default |-> <<>>, schedule |-> {}])

\* Run: w.denormalizeQueues(), the map being visited in any order
DenormalizeQueues ==
  /\ cfgRandomQueues = <<>>
  /\ \E order \in SeqsOf(DOMAIN cfgQueues) :
       cfgRandomQueues' = denormalizeQueues(cfgQueues, order)
  /\ UNCHANGED <<storeVars, procVars, dispVars, workVars, schedVars, quitVars,
                 reported, histVars, cfgQueues, lastIndices, lastList>>

\* one call of queueList, with any draw of rand.Perm
QueueListCall ==
  /\ cfgRandomQueues # <<>>
  /\ lastIndices = <<>>
  /\ \E indices \in DrawsOf(Cardinality(DOMAIN cfgQueues), Len(cfgRandomQueues)) :
       /\ lastIndices' = indices
       /\ lastList' = queueListOf(cfgRandomQueues, indices)
  /\ UNCHANGED <<storeVars, procVars, dispVars, workVars, schedVars, quitVars,
                 reported, histVars, cfgQueues, cfgRandomQueues>>

NextQueueList == DenormalizeQueues \/ QueueListCall

SpecQueueList == InitQueueList /\ [][NextQueueList]_vars


\* ----------------------------------------------------------------- claims
JobIn(seq, jid) == \E i \in DOMAIN seq : seq[i].jid = jid

\* the job is in the store, or on its way into a queue in another process
InStore(jid) ==
  \/ \E k \in QueueKeys : JobIn(list[k], jid)
  \/ \E n \in DOMAIN zset : \E e \in zset[n] : e.jid = jid
  \/ JobIn(pmsgs["peer"], jid)

\* the job is in the memory of this process, which is alive
InProcess(jid) ==
  /\ Running
  /\ \/ dmsg.ID = jid
     \/ \E w \in Workers : job[w].ID = jid
     \/ JobIn(pmsgs["self"], jid)

\* the job was handed to a worker and is nowhere any more
Gone(jid) == tally[jid].received > 0 /\ ~InStore(jid) /\ ~InProcess(jid)

\* worker w is alive and between logJobStart and logJobFinish
Busy(w) == Running /\ pc[w] \in {"perform", "retry", "finish"}

\* worker w is alive and has a job in hand
HasJob(w) == Running /\ pc[w] \in {"got", "continue", "perform", "retry", "finish"}

\* the accounting of one failure: job b before scheduleRetry, job a after
Accounting(b, a) ==
  /\ a.RetryCount = b.RetryCount + (IF b.FailedAt # NoTime THEN 1 ELSE 0)
  /\ b.FailedAt = NoTime =>
       /\ a.FailedAt # NoTime
       /\ a.RetryCount = 0
       /\ a.RetriedAt = b.RetriedAt
  /\ b.FailedAt # NoTime =>
       /\ a.FailedAt = b.FailedAt
       /\ a.RetriedAt # NoTime

\* C1: every envelope in the `retry` sorted set has
\* 0 <= retry_count <= max_retries, max_retries being what FromJSON
\* normalises the envelope's `retry` field to.
C1_RetryCountWithinMax ==
  \A e \in zset["retry"] :
    /\ 0 <= e.retry_count
    /\ e.retry_count <= FromJSON(e).job.MaxRetries

\* C1 witness: `retry` holds an envelope written after a second failure.
C1_Witness ==
  \E e \in zset["retry"] : e.retry_count = 1 /\ e.failed_at # NoTime

\* C2: a step of scheduleRetry increments retry_count by exactly 1 iff
\* failed_at was already set; if failed_at was empty it is set and
\* retry_count is 0 afterwards and retried_at is untouched; a set failed_at
\* is kept, and retried_at is set on each such later failure.
C2_RetryAccounting ==
  [][\A w \in Workers :
       (pc[w] \in {"got", "retry"} /\ pc'[w] \in {"continue", "finish"})
         => Accounting(job[w], job'[w])]_vars

\* C2 witness: a job after its second failure, failed first at another time.
C2_Witness ==
  \E w \in Workers :
    /\ pc[w] = "finish"
    /\ job[w].RetryCount = 1
    /\ job[w].RetriedAt # NoTime
    /\ job[w].FailedAt # job[w].RetriedAt

\* C3: a job with a registered handler and max_retries M >= 0 whose every
\* attempt failed, once it is in neither `retry` nor a queue nor in hand, has
\* been executed exactly M + 1 times, with M + 1 increments of stat:failed
\* (no store operation having failed).
C3_ExecutedMaxPlusOneTimes ==
  \A j \in Jids :
    (/\ Gone(j)
     /\ tally[j].performed > 0
     /\ ~tally[j].succeeded
     /\ tally[j].max >= 0
     /\ faults = 0)
      => /\ tally[j].performed = tally[j].max + 1
         /\ tally[j].failIncr = tally[j].max + 1

\* C4: with a reliable store, stat:processed is the number of attempts the
\* workers have finished, stat:failed the number of those that failed
\* (an unknown class included), and stat:failed <= stat:processed.
C4_CountersMatchAttempts ==
  faults = 0 =>
    /\ statProcessed = finished.all
    /\ statFailed = finished.failed
    /\ statFailed <= statProcessed

\* C5: with a reliable store, a worker id is in `workers`, and its two keys
\* exist, iff that worker is between logJobStart and logJobFinish of a job;
\* and when no worker has a job in hand, `workers` is empty.
C5_BusyWorkers ==
  faults = 0 =>
    /\ \A w \in Workers :
         /\ workerID(w) \in workers <=> Busy(w)
         /\ workerKey[workerID(w)] # <<>> <=> Busy(w)
         /\ startedKey[workerID(w)] # <<>> <=> Busy(w)
    /\ (\A w \in Workers : ~HasJob(w)) => workers = {}

\* C6: for a job of an unregistered class no handler is invoked, the
\* unknown-handler error is reported with the job, the job gets the
\* accounting of a failure and, when retries remain (and the ZADD does not
\* fail), is in `retry` with error_class naming that error; otherwise the
\* store is not written; the worker stays alive and returns to the receive.
C6_UnknownHandler ==
  [][\A w \in Workers :
       /\ (pc[w] = "got" /\ job[w].Type \notin workerMapping /\ pc'[w] # "got") =>
            /\ tally' = tally
            /\ [err |-> "gokiq.UnknownWorkerError", jid |-> job[w].ID] \in reported'
            /\ Accounting(job[w], job'[w])
            /\ (job'[w].RetryCount < job'[w].MaxRetries /\ faults' = faults) =>
                 \E e \in zset'["retry"] :
                   /\ e.jid = job[w].ID
                   /\ e.retry_count = job'[w].RetryCount
                   /\ e.error_class = "gokiq.UnknownWorkerError"
            /\ job'[w].RetryCount >= job'[w].MaxRetries => zset' = zset
            /\ pc'[w] = "continue"
            /\ proc' = "running"
       /\ (pc[w] = "continue" /\ pc'[w] # "continue") =>
            /\ pc'[w] = "recv"
            /\ proc' = "running"]_vars

\* C6 witness: the job of the unregistered class has been handled, is in
\* `retry` with the unknown-handler error, no handler has run, and the
\* workers that have started are all back at the receive.
C6_Witness ==
  /\ Running
  /\ tally["b"].received = 1
  /\ tally["b"].performed = 0
  /\ finished.all = 1
  /\ \A w \in Workers : pc[w] = "recv"
  /\ \E e \in zset["retry"] :
       e.jid = "b" /\ e.error_class = "gokiq.UnknownWorkerError"

\* C7: no abort of a handler ends a worker or the process: until the job
\* channel is closed at shutdown, the process runs and all WorkerCount
\* workers are in the pool.
C7_WorkersSurviveAborts ==
  ~chanClosed => (proc = "running" /\ \A w \in Workers : pc[w] # "exited")

\* C8: with several promoters on the store, an entry of `retry` or
\* `schedule` is returned to at most one promoter and pushed onto its queue
\* at most once.
C8_PromotionExclusive ==
  /\ \A o1, o2 \in observed : o1[2] = o2[2] => o1[1] = o2[1]
  /\ \A e \in BagToSet(pushed) : CopiesIn(e, pushed) <= 1

\* C8 witness: the two promoters are pushing their entries at the same time,
\* one entry already pushed.
C8_Witness ==
  /\ ppc["self"] = "push"
  /\ ppc["peer"] = "push"
  /\ pushed # EmptyBag

\* C9: when a scheduler iteration has ended, every well-formed envelope it
\* removed from a set has been pushed onto its queue exactly once, also when
\* a store operation of the iteration failed.
C9_RemovedIsPushedOnce ==
  \A p \in Promoters :
    ppc[p] = "idle" =>
      \A o \in observed :
        (o[1] = p /\ o[2].wellFormed) => CopiesIn(o[2], pushed) = 1

\* a step that issues a BLPOP, or removes an entry from a queue
Pops ==
  \/ dpc = "locked" /\ dpc' # "locked"
  \/ \E k \in QueueKeys : Len(list'[k]) < Len(list[k])

\* C10 as claimed: once the signal has been received, no BLPOP is issued and
\* no entry is removed from a queue.
C10_NoPopAfterSignal == [][qpc # "wait" => ~Pops]_vars

\* C10 as amended: once quitHandler holds the gate exclusively (w.Lock() has
\* returned), no BLPOP is issued and no entry is removed from a queue; and
\* once it has called w.Lock(), the dispatcher begins no new iteration.
C10_NoPopOnceGateHeld ==
  [][/\ rw.writer = "held" => ~Pops
     /\ rw.writer # "free" => ~(dpc = "idle" /\ dpc' # "idle")]_vars

\* C10 witness: the gate is held exclusively while a queue still has entries.
C10_Witness ==
  /\ rw.writer = "held"
  /\ proc = "running"
  /\ \E k \in QueueKeys : list[k] # <<>>

\* the number of handler invocations, over all jobs
Performed ==
  tally["a"].performed + tally["b"].performed + tally["c"].performed
    + tally["d"].performed

\* C11: the process exits with status 0 only after the job channel has been
\* closed and every one of the WorkerCount workers has left its loop
\* (done.Done()); every job handed to a worker has then had its handler run
\* and its finish bookkeeping applied (stat:processed counts it, the store
\* being reliable).
C11_ExitAfterPoolDone ==
  proc = "exited" =>
    /\ chanClosed
    /\ \A w \in Workers : pc[w] = "exited"
    /\ faults = 0 => statProcessed = Performed

\* C12: the job channel is closed only while neither a dispatcher iteration
\* nor a scheduler iteration of this process is in progress; once the gate is
\* held exclusively neither starts again; the dispatcher never holds a job
\* to send when the channel is closed; and at the exit no entry removed from
\* `retry` or `schedule` is still waiting to be pushed.
C12_ShutdownGate ==
  [][/\ (~chanClosed /\ chanClosed') =>
          /\ dpc = "idle" /\ dmsg = ZeroJob
          /\ ppc["self"] = "idle" /\ pmsgs["self"] = <<>>
     /\ rw.writer = "held" =>
          /\ dpc = "idle" /\ dpc' = "idle"
          /\ ppc["self"] = "idle" /\ ppc'["self"] = "idle"
     /\ chanClosed' => dpc' # "send"
     /\ proc' = "exited" => pmsgs'["self"] = <<>>]_vars

\* C12 witness: the channel has been closed right after a hand-off: a worker
\* has just accepted a job that the scheduler had promoted.
C12_Witness ==
  /\ chanClosed
  /\ Running
  /\ pushed # EmptyBag
  /\ \E w \in Workers : pc[w] = "got"

\* max_retries as the claim derives it from the `retry` field, a number
\* being brought to an integer by toInt (numbers are kept in halves)
NormalizedMax(retry, toInt(_)) ==
  IF retry.kind = "num" THEN toInt(retry.num)
  ELSE IF retry.kind = "bool" /\ ~retry.bool THEN 0
  ELSE defaultMaxRetries

Floor(h) == h \div 2

TruncateToZero(h) == IF h >= 0 THEN h \div 2 ELSE -((-h) \div 2)

\* the dispatcher's parse of the envelope it pops gives max_retries the
\* value of NormalizedMax
ParsesTo(toInt(_)) ==
  \A k \in QueueKeys :
    (Len(list'[k]) < Len(list[k]) /\ dpc' = "send")
      => /\ Head(list[k]).retry.kind \in {"num", "bool", "absent"}
            => dmsg'.MaxRetries = NormalizedMax(Head(list[k]).retry, toInt)
         /\ dmsg'.RetryCount = Head(list[k]).retry_count

RetryFalseNotWritten ==
  \A e \in zset'["retry"] : e.retry # RetryBool(FALSE)

\* C13 as claimed: FromJSON on a fresh Job gives max_retries the floor of a
\* numeric `retry`, 25 for true or a missing field, 0 for false; and a job
\* with retry:false is never written to `retry`.
C13_MaxRetriesFloored ==
  [][ParsesTo(Floor) /\ RetryFalseNotWritten]_vars

\* C13 as amended: a numeric `retry` is truncated towards zero (the floor
\* for a non-negative number); the rest as claimed.
C13_MaxRetriesTruncated ==
  [][ParsesTo(TruncateToZero) /\ RetryFalseNotWritten]_vars

\* C13 witness: an envelope with retry: -1.5 has been parsed to
\* max_retries = -1, where the floor is -2.
C13_Witness ==
  /\ dpc = "send"
  /\ dmsg.Retry = RetryNum(-3)
  /\ dmsg.MaxRetries = -1

\* the sum of the weights of the queues in S
RECURSIVE SumWeights(_, _)
SumWeights(Q, S) ==
  IF S = {} THEN 0
  ELSE LET q == CHOOSE x \in S : TRUE IN Q[q] + SumWeights(Q, S \ {q})

\* all draws of one queueList call in the current configuration
AllDraws == DrawsOf(Cardinality(DOMAIN cfgQueues), Len(cfgRandomQueues))

\* the draws whose queue list starts with queue q
DrawsStartingWith(q) ==
  {d \in AllDraws : queueListOf(cfgRandomQueues, d)[1] = QueueKey(q)}

\* C14: over all equally likely draws of indices from the denormalized
\* queues, the fraction of draws whose queue list starts with q is
\* weight(q) / sum of the weights, for every configuration of positive
\* weights.
C14_WeightedFirst ==
  (cfgRandomQueues # <<>> /\ lastIndices = <<>>) =>
    \A q \in DOMAIN cfgQueues :
      Cardinality(DrawsStartingWith(q)) * SumWeights(cfgQueues, DOMAIN cfgQueues)
        = cfgQueues[q] * Cardinality(AllDraws)

\* C14 witness: in a configuration of queues with different weights, a draw
\* has put the queue of smaller weight first.
C14_Witness ==
  /\ lastList # <<>>
  /\ \E q, r \in DOMAIN cfgQueues :
       /\ cfgQueues[q] < cfgQueues[r]
       /\ lastList[1] = QueueKey(q)

\* the position of the first index of the draw that names queue key k
FirstDrawn(k) ==
  CHOOSE i \in DOMAIN lastIndices :
    /\ cfgRandomQueues[lastIndices[i]] = k
    /\ \A j \in 1 .. (i - 1) : cfgRandomQueues[lastIndices[j]] # k

\* C17: for every configuration with positive weights and every draw,
\* queueList returns a non-empty list of namespaced keys of configured
\* queues, with at most one entry per queue, ordered by first occurrence in
\* the draw, of a length between 1 and the number of configured queues.
C17_QueueListShape ==
  lastIndices # <<>> =>
    /\ lastList # <<>>
    /\ 1 <= Len(lastList) /\ Len(lastList) <= Cardinality(DOMAIN cfgQueues)
    /\ \A i \in DOMAIN lastList :
         \E q \in DOMAIN cfgQueues : lastList[i] = nsKey(<<"queue:", q>>)
    /\ \A i, j \in DOMAIN lastList : i # j => lastList[i] # lastList[j]
    /\ {lastList[i] : i \in DOMAIN lastList}
         = {cfgRandomQueues[lastIndices[i]] : i \in DOMAIN lastIndices}
    /\ \A i, j \in DOMAIN lastList :
         i < j => FirstDrawn(lastList[i]) < FirstDrawn(lastList[j])

\* C17 witness: a queue list that leaves a configured queue out.
C17_Witness ==
  /\ lastIndices # <<>>
  /\ Cardinality(DOMAIN cfgQueues) = 3
  /\ Len(lastList) = 2

\* C15: a queue:<name> list changes only by the dispatcher's pop of its
\* head or by a push at its tail of an entry a scheduler has fetched; the
\* dispatcher pops only with no job in hand, the job it then holds is the
\* popped head, and it hands exactly that job to a worker before anything
\* else; so of two envelopes in one queue the one nearer the head is handed
\* over first (job c, ahead of job d in queue:default, is received first).
C15_PerQueueFIFO ==
  [][/\ \A k \in QueueKeys :
          \/ list'[k] = list[k]
          \/ /\ list[k] # <<>>
             /\ list'[k] = Tail(list[k])
             /\ dpc = "locked" /\ dmsg = ZeroJob
             /\ dpc' = "send" =>
                  /\ dmsg'.ID = Head(list[k]).jid
                  /\ QueueKey(dmsg'.Queue) = k
          \/ \E p \in Promoters :
               /\ ppc[p] = "push"
               /\ list'[k] = Append(list[k], Head(pmsgs[p]))
               /\ QueueKey(Head(pmsgs[p]).queue) = k
     /\ dpc = "send" =>
          \/ dpc' = "send" /\ dmsg' = dmsg
          \/ /\ dpc' = "idle"
             /\ \E w \in Workers : pc[w] = "recv" /\ pc'[w] = "got" /\ job'[w] = dmsg
     /\ (JobIn(list[QueueKey("default")], "c") \/ dmsg.ID = "c")
          => tally["d"].received = 0]_vars

\* C15 witness: the scheduler has pushed job d into queue:default behind
\* job c, and the dispatcher is about to pop.
C15_Witness ==
  /\ Len(list[QueueKey("default")]) = 2
  /\ list[QueueKey("default")][1].jid = "c"
  /\ list[QueueKey("default")][2].jid = "d"
  /\ dpc = "locked"

\* the workers that hold job j and have not invoked its handler yet
Pending(j) == {w \in Workers : job[w].ID = j /\ pc[w] \in {"got", "perform"}}

\* while the process runs, the handler of a registered class has been
\* invoked once for every hand-off of the job, the ones still due aside
HandlerOncePerAttempt ==
  proc = "running" =>
    \A j \in {"a", "c", "d"} :
      tally[j].performed = tally[j].received - Cardinality(Pending(j))

\* C16: when the start or the finish bookkeeping transaction fails, the
\* error is reported with a nil job, the job and the retry set are left
\* as they are, and the worker goes on to invoke the handler (after the
\* start) or to its next receive (after the finish); the handler is invoked
\* once per hand-off; and an entry is added to `retry` only by a worker whose
\* handler has returned an error or whose job has no registered handler.
C16_BookkeepingFailures ==
  [][/\ \A w \in Workers :
          /\ (pc[w] = "got" /\ pc'[w] # "got" /\ job[w].Type \in workerMapping
              /\ faults' > faults) =>
               /\ [err |-> "store", jid |-> "nil"] \in reported'
               /\ pc'[w] = "perform"
               /\ job'[w] = job[w]
               /\ zset' = zset /\ list' = list /\ tally' = tally
          /\ (pc[w] = "finish" /\ pc'[w] # "finish" /\ faults' > faults) =>
               /\ [err |-> "store", jid |-> "nil"] \in reported'
               /\ pc'[w] = "recv"
               /\ zset' = zset /\ list' = list /\ tally' = tally
          /\ (pc[w] = "perform" /\ pc'[w] # "perform") =>
               /\ tally'[job[w].ID].performed = tally[job[w].ID].performed + 1
               /\ pc'[w] = "retry" <=> err'[w] # NoError
               /\ pc'[w] = "finish" <=> err'[w] = NoError
     /\ ~(zset'["retry"] \subseteq zset["retry"]) =>
          \E w \in Workers :
            \/ pc[w] = "retry" /\ err[w] # NoError
            \/ pc[w] = "got" /\ job[w].Type \notin workerMapping
     /\ HandlerOncePerAttempt /\ HandlerOncePerAttempt']_vars

\* C16 witness: the start bookkeeping of a job failed (its worker is not in
\* `workers`), the error was reported with a nil job, and the handler has
\* run once and succeeded.
C16_Witness ==
  \E w \in Workers :
    /\ pc[w] = "finish"
    /\ err[w] = NoError
    /\ workerID(w) \notin workers
    /\ [err |-> "store", jid |-> "nil"] \in reported
    /\ tally[job[w].ID].performed = 1
    /\ tally[job[w].ID].received = 1

\* the number of hand-offs, over all jobs
Received ==
  tally["a"].received + tally["b"].received + tally["c"].received
    + tally["d"].received

\* the jobs popped and parsed whose processing has not finished: those handed
\* to a worker and the one the dispatcher holds, less the finished ones
InFlight == Received + (IF dpc = "send" THEN 1 ELSE 0) - finished.all

\* C18: at most WorkerCount + 1 jobs are popped and not finished; while the
\* dispatcher holds a job no entry leaves a queue; and a worker accepts a job
\* only at its receive, with no job in hand.
C18_Backpressure ==
  [][/\ InFlight <= WorkerCount + 1
     /\ InFlight' <= WorkerCount + 1
     /\ dpc = "send" => \A k \in QueueKeys : Len(list'[k]) >= Len(list[k])
     /\ \A w \in Workers :
          (job'[w] # job[w] /\ pc'[w] = "got")
            => (pc[w] = "recv" /\ job[w] = ZeroJob)]_vars

\* C18 witness: every worker has a job in hand, the dispatcher holds one
\* more, and the queue still has entries.
C18_Witness ==
  /\ InFlight = WorkerCount + 1
  /\ dpc = "send"
  /\ \A w \in Workers : HasJob(w)
  /\ list[QueueKey("default")] # <<>>

\* C19: every handler invocation and store operation ending, a shutdown
\* signal is followed by the exit of the process with status 0.
C19_ShutdownCompletes == (qpc # "wait") ~> (proc = "exited")

\* the envelope of job j is in a queue of the configuration
InQueue(j) == \E k \in QueueKeys : JobIn(list[k], j)

\* C20: no signal arriving, the store being reliable, handlers ending and
\* the draw being fair, an envelope in a configured queue is eventually
\* popped and handed to a worker.
C20_NoStarvation ==
  \A j \in {"a", "b", "c"} :
    (InQueue(j) /\ faults = 0) ~> (tally[j].received > 0 \/ faults > 0)

====
